---- MODULE Spec2Model ----
(***************************************************************************)
(* Model of scripts/generate-icon.py: the renderer draw_icon(size) and the *)
(* exporter main().                                                        *)
(*                                                                         *)
(* Two specifications:                                                     *)
(*   SpecDraw  draw_icon(size) run statement by statement for every size   *)
(*             in 1..MaxSize;                                              *)
(*   Spec      main() run statement by statement, MaxRuns invocations in   *)
(*             a row on one file system, any fallible statement may raise. *)
(***************************************************************************)
EXTENDS Integers, Sequences, FiniteSets, TLC

\* ------------------------------------------------------------------ bounds
MaxSize == 1100
MaxRuns == 3

\* --------------------------------------------------------------- constants
SIZE == 1024

\* ------------------------------------------------- Python number semantics
Abs(x) == IF x < 0 THEN -x ELSE x
Max(a, b) == IF a >= b THEN a ELSE b

B16 == 256 * 256

RECURSIVE Pow2(_)
Pow2(n) == IF n = 0 THEN 1 ELSE 2 * Pow2(n - 1)

RECURSIVE BitLen(_)
BitLen(n) == IF n = 0 THEN 0 ELSE 1 + BitLen(n \div 2)

\* int(x * c) for an int x in 0..32767 and a float literal c, as CPython
\* computes it: x is converted exactly, the product is rounded to 53 bits
\* (round half to even) and int() truncates.  c is given by its IEEE-754
\* significand c.m (four base-65536 digits, most significant first) and the
\* exponent c.e with c = significand * 2^(-c.e).
FloatMulTrunc(x, c) ==
  IF x = 0 THEN 0 ELSE
  LET t0 == x * c.m[4]
      t1 == x * c.m[3] + t0 \div B16
      t2 == x * c.m[2] + t1 \div B16
      t3 == x * c.m[1] + t2 \div B16
      p0 == t0 % B16
      p1 == t1 % B16
      p2 == t2 % B16
      p3 == t3 % B16
      p4 == t3 \div B16
      b == IF p4 > 0 THEN 64 + BitLen(p4) ELSE 48 + BitLen(p3)
      shift == b - 53
      unit == Pow2(shift)
      rem == p0 % unit
      odd == (p0 \div unit) % 2 = 1
      up == shift > 0 /\ (2 * rem > unit \/ (2 * rem = unit /\ odd))
      v0 == p0 - rem + (IF up THEN unit ELSE 0)
      v1 == p1 + v0 \div B16
      v2 == p2 + v1 \div B16
      v3 == p3 + v2 \div B16
  IN (p4 * B16 + v3) \div Pow2(c.e - 48)

\* The float literals of draw_icon (float.hex() of each literal).
F_0_06  == [m |-> <<30, 47185, 60293, 7864>>,  e |-> 57]  \* 0x1.eb851eb851eb8p-5
F_0_22  == [m |-> <<28, 10485, 49807, 23593>>, e |-> 55]  \* 0x1.c28f5c28f5c29p-3
F_0_42  == [m |-> <<26, 57671, 44564, 31457>>, e |-> 54]  \* 0x1.ae147ae147ae1p-2
F_0_44  == [m |-> <<28, 10485, 49807, 23593>>, e |-> 54]  \* 0x1.c28f5c28f5c29p-2
F_0_6   == [m |-> <<19, 13107, 13107, 13107>>, e |-> 53]  \* 0x1.3333333333333p-1
F_0_012 == [m |-> <<24, 37748, 48234, 32506>>, e |-> 59]  \* 0x1.89374bc6a7efap-7
F_0_52  == [m |-> <<16, 41943, 2621, 28836>>,  e |-> 53]  \* 0x1.0a3d70a3d70a4p-1
F_0_20  == [m |-> <<25, 39321, 39321, 39322>>, e |-> 55]  \* 0x1.999999999999ap-3
F_0_04  == [m |-> <<20, 31457, 18350, 5243>>,  e |-> 57]  \* 0x1.47ae147ae147bp-5
F_0_65  == [m |-> <<20, 52428, 52428, 52429>>, e |-> 53]  \* 0x1.4cccccccccccdp-1
F_0_018 == [m |-> <<18, 28311, 36175, 57147>>, e |-> 58]  \* 0x1.26e978d4fdf3bp-6
F_0_7   == [m |-> <<22, 26214, 26214, 26214>>, e |-> 53]  \* 0x1.6666666666666p-1
F_0_78  == [m |-> <<24, 62914, 36700, 10486>>, e |-> 53]  \* 0x1.8f5c28f5c28f6p-1
F_0_055 == [m |-> <<28, 10485, 49807, 23593>>, e |-> 57]  \* 0x1.c28f5c28f5c29p-5

\* ------------------------------------------------- draw_icon: the geometry
pad_abs(s) == 61
pad(s) == FloatMulTrunc(s, F_0_06)
radius(s) == FloatMulTrunc(s, F_0_22)

diamond_cx(s) == FloatMulTrunc(s, F_0_42)
diamond_cy(s) == FloatMulTrunc(s, F_0_44)
diamond_r(s) == FloatMulTrunc(s, F_0_22)
inner_r(s) == FloatMulTrunc(diamond_r(s), F_0_6)

line_w(s) == Max(2, FloatMulTrunc(s, F_0_012))

\* [-diamond_r // 3, 0, diamond_r // 3]: unary minus binds tighter than //,
\* and // floors, so the first entry is floor(-diamond_r / 3).
OffsetsNoSign(s) == << diamond_r(s) \div 3, 0, diamond_r(s) \div 3 >>
Offsets(s) == << (-diamond_r(s)) \div 3, 0, diamond_r(s) \div 3 >>

ChordDrawnGE(half_width) == half_width >= 0
ChordDrawn(half_width) == half_width > 0

lens_cx(s) == FloatMulTrunc(s, F_0_52)
lens_cy(s) == FloatMulTrunc(s, F_0_42)
lens_r(s) == FloatMulTrunc(s, F_0_20)
lens_outline_w(s) == Max(4, FloatMulTrunc(s, F_0_04))

shine_r(s) == FloatMulTrunc(lens_r(s), F_0_65)
shine_w(s) == Max(2, FloatMulTrunc(s, F_0_018))

handle_start_x(s) == lens_cx(s) + FloatMulTrunc(lens_r(s), F_0_7)
handle_start_y(s) == lens_cy(s) + FloatMulTrunc(lens_r(s), F_0_7)
handle_end_x(s) == FloatMulTrunc(s, F_0_78)
handle_end_y(s) == FloatMulTrunc(s, F_0_78)
handle_w(s) == Max(6, FloatMulTrunc(s, F_0_055))
cap_r(s) == FloatMulTrunc(handle_w(s), F_0_6)

\* One call on the ImageDraw object: the primitive, what it draws, the loop
\* iteration it belongs to (0 outside the chord loop), its coordinates
\* [x0, y0, x1, y1, ...] and its width/radius argument (0 when it has none).
DrawCall(op, tag, i, xy, width) ==
  [op |-> op, tag |-> tag, i |-> i, xy |-> xy, width |-> width]

BackgroundCall(s) ==
  DrawCall("rounded_rectangle", "background", 0,
           <<pad(s), pad(s), s - pad(s), s - pad(s)>>, radius(s))

DiamondCall(s) ==
  DrawCall("polygon", "diamond", 0,
           << diamond_cx(s), diamond_cy(s) - diamond_r(s),
              diamond_cx(s) + diamond_r(s), diamond_cy(s),
              diamond_cx(s), diamond_cy(s) + diamond_r(s),
              diamond_cx(s) - diamond_r(s), diamond_cy(s) >>, 0)

InnerDiamondCall(s) ==
  DrawCall("polygon", "inner_diamond", 0,
           << diamond_cx(s), diamond_cy(s) - inner_r(s),
              diamond_cx(s) + inner_r(s), diamond_cy(s),
              diamond_cx(s), diamond_cy(s) + inner_r(s),
              diamond_cx(s) - inner_r(s), diamond_cy(s) >>, 0)

\* The body of the chord loop for the i-th offset: the calls it adds.
ChordCalls(s, i) ==
  LET offset == Offsets(s)[i]
      y == diamond_cy(s) + offset
      dy == Abs(offset)
      half_width == diamond_r(s) - dy
  IN IF ChordDrawn(half_width)
     THEN << DrawCall("line", "chord", i,
                      << diamond_cx(s) - half_width + line_w(s), y,
                         diamond_cx(s) + half_width - line_w(s), y >>,
                      line_w(s)) >>
     ELSE << >>

LensOutlineCall(s) ==
  DrawCall("ellipse", "lens_outline", 0,
           << lens_cx(s) - lens_r(s), lens_cy(s) - lens_r(s),
              lens_cx(s) + lens_r(s), lens_cy(s) + lens_r(s) >>,
           lens_outline_w(s))

LensFillCall(s) ==
  DrawCall("ellipse", "lens_fill", 0,
           << lens_cx(s) - lens_r(s) + lens_outline_w(s),
              lens_cy(s) - lens_r(s) + lens_outline_w(s),
              lens_cx(s) + lens_r(s) - lens_outline_w(s),
              lens_cy(s) + lens_r(s) - lens_outline_w(s) >>, 0)

ShineCall(s) ==
  DrawCall("arc", "shine", 0,
           << lens_cx(s) - shine_r(s), lens_cy(s) - shine_r(s),
              lens_cx(s) + shine_r(s), lens_cy(s) + shine_r(s) >>,
           shine_w(s))

HandleCall(s) ==
  DrawCall("line", "handle", 0,
           << handle_start_x(s), handle_start_y(s),
              handle_end_x(s), handle_end_y(s) >>, handle_w(s))

CapCall(s) ==
  DrawCall("ellipse", "cap", 0,
           << handle_end_x(s) - cap_r(s), handle_end_y(s) - cap_r(s),
              handle_end_x(s) + cap_r(s), handle_end_y(s) + cap_r(s) >>, 0)

\* A bounding box whose right/bottom edge lies before its left/top edge.
\* Pillow's box primitives (rounded_rectangle, ellipse, arc) reject it with
\* ValueError in current releases and draw nothing in older ones.
BoxCalls == {"rounded_rectangle", "ellipse", "arc"}
Degenerate(call) ==
  /\ call.op \in BoxCalls
  /\ (call.xy[3] < call.xy[1] \/ call.xy[4] < call.xy[2])

\* Image.new("RGBA", (size, size), ...): the image draw_icon returns.
NoImage == [w |-> 0, h |-> 0, mode |-> "none", via |-> "none", id |-> 0]
NewImage(s, id) == [w |-> s, h |-> s, mode |-> "RGBA", via |-> "draw", id |-> id]

\* PIL.Image.resize((sz, sz), LANCZOS): a new image; the source is only read.
Redraw(img, sz) == [w |-> sz, h |-> sz, mode |-> img.mode, via |-> "draw", id |-> img.id + 1]
Resize(img, sz) == [w |-> sz, h |-> sz, mode |-> img.mode, via |-> "resize", id |-> img.id]

\* ------------------------------------------------------------------- state
VARIABLES
  dsize,       \* draw_icon: the size argument
  dpc,         \* draw_icon: the statement about to run
  ci,          \* draw_icon: 1-based index of the chord loop
  ops,         \* draw_icon: the calls made so far on the ImageDraw object
  img,         \* draw_icon: the image being drawn (returned at the end)
  pc,          \* main: the statement about to run
  idx,         \* main: 1-based index of the loop over the PNG sizes
  dir,         \* file system: the icon directory, "missing" or "present"
  files,       \* file system: the content of each file of the icon directory
  out,         \* stdout of the running process
  master,      \* main: the master image
  resized,     \* main: the image resized last (resized / icns_img / temporary)
  ico_images,  \* main: the list of images resized for the ICO container
  drawCalls,   \* number of draw_icon calls of the running process
  written,     \* names of the files the running process has saved, in order
  failedAt,    \* the statement that raised in the running process, or "none"
  error,       \* the exception that ended the running process, or "none"
  exitStatus,  \* the exit status of the process, -1 while it runs
  run,         \* number of the invocation of the script
  dirAtStart,  \* the state of the icon directory when the invocation began
  filesAtStart \* the files of the icon directory when the invocation began

drawVars == <<dsize, dpc, ci, ops, img>>
mainVars == <<pc, idx, dir, files, out, master, resized, ico_images, drawCalls,
              written, failedAt, error, exitStatus, run, dirAtStart, filesAtStart>>
vars == <<dsize, dpc, ci, ops, img, pc, idx, dir, files, out, master, resized,
          ico_images, drawCalls, written, failedAt, error, exitStatus, run,
          dirAtStart, filesAtStart>>

\* ----------------------------------------------- draw_icon, by statement
\* img = Image.new("RGBA", (size, size), (0, 0, 0, 0)); draw = ImageDraw.Draw(img)
ImageNew ==
  /\ dpc = "new"
  /\ img' = NewImage(dsize, drawCalls)
  /\ ops' = << >>
  /\ dpc' = "background"
  /\ UNCHANGED <<dsize, ci>>

\* One ImageDraw call with a well-formed argument, then on to statement next.
DrawStep(at, call, next) ==
  /\ dpc = at
  /\ ~Degenerate(call)
  /\ ops' = Append(ops, call)
  /\ dpc' = next
  /\ UNCHANGED <<dsize, img>>

DrawBackground ==
  DrawStep("background", BackgroundCall(dsize), "diamond") /\ UNCHANGED ci

DrawDiamond ==
  DrawStep("diamond", DiamondCall(dsize), "inner_diamond") /\ UNCHANGED ci

\* Also enters the chord loop: for offset in [...]
DrawInnerDiamond ==
  DrawStep("inner_diamond", InnerDiamondCall(dsize), "chords") /\ ci' = 1

\* One iteration of the chord loop.
DrawChord ==
  /\ dpc = "chords"
  /\ ci \in 1..3
  /\ ops' = ops \o ChordCalls(dsize, ci)
  /\ ci' = ci + 1
  /\ dpc' = IF ci = 3 THEN "lens_outline" ELSE "chords"
  /\ UNCHANGED <<dsize, img>>

DrawLensOutline ==
  DrawStep("lens_outline", LensOutlineCall(dsize), "lens_fill") /\ UNCHANGED ci

DrawLensFill ==
  DrawStep("lens_fill", LensFillCall(dsize), "shine") /\ UNCHANGED ci

\* The lens-fill ellipse gets a box with x1 < x0: Pillow raises ValueError
\* ("x1 must be greater than or equal to x0"), which draw_icon does not catch.
LensFillRejected ==
  /\ dpc = "lens_fill"
  /\ Degenerate(LensFillCall(dsize))
  /\ ops' = Append(ops, LensFillCall(dsize))
  /\ dpc' = "raised"
  /\ UNCHANGED <<dsize, ci, img>>

\* The same call on a Pillow release without that check: nothing is drawn.
LensFillIgnored ==
  /\ dpc = "lens_fill"
  /\ Degenerate(LensFillCall(dsize))
  /\ ops' = Append(ops, LensFillCall(dsize))
  /\ dpc' = "shine"
  /\ UNCHANGED <<dsize, ci, img>>

DrawShine ==
  DrawStep("shine", ShineCall(dsize), "handle") /\ UNCHANGED ci

DrawHandle ==
  DrawStep("handle", HandleCall(dsize), "cap") /\ UNCHANGED ci

DrawCap ==
  DrawStep("cap", CapCall(dsize), "return") /\ UNCHANGED ci

\* return img
ReturnImg ==
  /\ dpc = "return"
  /\ dpc' = "returned"
  /\ UNCHANGED <<dsize, ci, ops, img>>

\* draw_icon(size) on its own, for every size of 1..MaxSize.
InitDraw ==
  /\ dsize \in 1..MaxSize
  /\ dpc = "new"
  /\ ci = 0
  /\ ops = << >>
  /\ img = NoImage
  /\ pc = "idle"
  /\ idx = 0
  /\ dir = "present"
  /\ files = << >>
  /\ out = << >>
  /\ master = NoImage
  /\ resized = NoImage
  /\ ico_images = << >>
  /\ drawCalls = 1
  /\ written = << >>
  /\ failedAt = "none"
  /\ error = "none"
  /\ exitStatus = -1
  /\ run = 0
  /\ dirAtStart = "present"
  /\ filesAtStart = << >>

NextDraw ==
  \/ ImageNew /\ UNCHANGED mainVars
  \/ DrawBackground /\ UNCHANGED mainVars
  \/ DrawDiamond /\ UNCHANGED mainVars
  \/ DrawInnerDiamond /\ UNCHANGED mainVars
  \/ DrawChord /\ UNCHANGED mainVars
  \/ DrawLensOutline /\ UNCHANGED mainVars
  \/ DrawLensFill /\ UNCHANGED mainVars
  \/ LensFillRejected /\ UNCHANGED mainVars
  \/ LensFillIgnored /\ UNCHANGED mainVars
  \/ DrawShine /\ UNCHANGED mainVars
  \/ DrawHandle /\ UNCHANGED mainVars
  \/ DrawCap /\ UNCHANGED mainVars
  \/ ReturnImg /\ UNCHANGED mainVars

SpecDraw == InitDraw /\ [][NextDraw]_vars

\* Every box call other than the lens fill is well formed at every size.
OtherBoxesWellFormed ==
  /\ ~Degenerate(BackgroundCall(dsize))
  /\ ~Degenerate(LensOutlineCall(dsize))
  /\ ~Degenerate(ShineCall(dsize))
  /\ ~Degenerate(CapCall(dsize))

\* ------------------------------------------------------- main: the tables
\* sizes = {"32x32.png": 32, ...}: a dict iterates in insertion order.
PngNames == << "32x32.png", "128x128.png", "128x128@2x.png" >>
PngSizes == << 32, 128, 256 >>
ico_sizes == << 16, 24, 32, 48, 64, 128, 256 >>

\* The files main saves, in the order of its statements.
ArtifactOrder ==
  << "32x32.png", "128x128.png", "128x128@2x.png", "icon.ico", "icon.icns", "icon.png" >>
Artifacts == { ArtifactOrder[k] : k \in 1..Len(ArtifactOrder) }

\* A file of the icon directory that main never names.
OtherFile == "notes.txt"
Names == Artifacts \cup {OtherFile}

\* File contents: a format and the images it holds.
Absent == [fmt |-> "absent", frames |-> << >>]
Partial == [fmt |-> "partial", frames |-> << >>]
Stale == [fmt |-> "stale", frames |-> << >>]
UserData == [fmt |-> "user", frames |-> << >>]

Range(seq) == { seq[k] : k \in 1..Len(seq) }

\* sorted(set(sizes))
RECURSIVE SortedSeq(_)
SortedSeq(S) ==
  IF S = {} THEN << >>
  ELSE LET lo == CHOOSE x \in S : \A y \in S : x <= y
       IN <<lo>> \o SortedSeq(S \ {lo})

\* im.save(path, format="ICO", sizes=[(sz, sz)...], append_images=append):
\* the frames Pillow's ICO writer stores.  It walks sorted(set(sizes)), skips
\* every size larger than im itself (or than 256), and takes for each size
\* left the first of [im] + append of exactly that size, else a copy of the
\* last of them scaled down to it.
IcoFrames(im, sizes, append) ==
  LET provided == <<im>> \o append
      fits(sz) == ~(sz > im.w \/ sz > im.h \/ sz > 256 \/ sz > 256)
      kept == SelectSeq(SortedSeq(Range(sizes)), fits)
      frame(sz) ==
        IF \E j \in 1..Len(provided) : provided[j].w = sz /\ provided[j].h = sz
        THEN provided[CHOOSE j \in 1..Len(provided) :
                        /\ provided[j].w = sz /\ provided[j].h = sz
                        /\ \A i \in 1..(j - 1) : ~(provided[i].w = sz /\ provided[i].h = sz)]
        ELSE Resize(provided[Len(provided)], sz)
  IN [k \in 1..Len(kept) |-> frame(kept[k])]

PngFile(im) == [fmt |-> "PNG", frames |-> <<im>>]
IcoFile(im, sizes, append) == [fmt |-> "ICO", frames |-> IcoFrames(im, sizes, append)]
\* format="ICNS": the container is packed from the one image it is given.
IcnsFile(im) == [fmt |-> "ICNS", frames |-> <<im>>]

\* im.save(path, ...): the file is opened for writing, so whatever was at
\* path is replaced.
SaveKeepExisting(fs, name, content) ==
  IF fs[name] = Absent THEN [fs EXCEPT ![name] = content] ELSE fs
SaveFile(fs, name, content) == [fs EXCEPT ![name] = content]

\* os.makedirs(icon_dir, exist_ok=True): the exception it raises because of
\* the directory's state, "none" when it raises none.
MakedirsNoExistOk(d) == IF d = "present" THEN "FileExistsError" ELSE "none"
MakedirsError(d) == "none"

\* The lines main prints.
SavedSized(filename, sz) ==
  "  Saved " \o filename \o " (" \o ToString(sz) \o "x" \o ToString(sz) \o ")"
SavedIco == "  Saved icon.ico (" \o ToString(Len(ico_sizes)) \o " sizes)"
SavedIcns == "  Saved icon.icns"
SavedWeb == "  Saved icon.png (512x512)"
Banner == "\nAll icons generated!"

\* No statement of main is inside a try block and main is called at the top
\* level of the script: an exception raised at statement p ends the process.
CatchAndContinue(p) ==
  CASE p \in {"png_resize", "png_save"} -> "ico_resize"
    [] p \in {"ico_resize", "ico_save"} -> "icns_resize"
    [] p \in {"icns_resize", "icns_save"} -> "web_resize"
    [] OTHER -> "banner"
Propagate(p) == "aborted"

\* The number of artifacts whose save precedes statement p (i: the PNG loop index).
SavedBefore(p, i) ==
  CASE p \in {"png_resize", "png_save", "png_print"} -> i - 1
    [] p \in {"ico_resize", "ico_save", "ico_print"} -> 3
    [] p \in {"icns_resize", "icns_save", "icns_print"} -> 4
    [] p \in {"web_resize", "web_save", "web_print"} -> 5
    [] p \in {"banner", "done"} -> 6
    [] OTHER -> 0

\* ------------------------------------------------------ main, by statement
fsVars == <<dir, files>>
procVars == <<failedAt, error, exitStatus, run, dirAtStart, filesAtStart>>

\* os.makedirs(icon_dir, exist_ok=True)
Makedirs ==
  /\ pc = "makedirs"
  /\ IF MakedirsError(dir) = "none"
     THEN /\ dir' = "present"
          /\ pc' = "draw"
          /\ UNCHANGED <<failedAt, error, exitStatus>>
     ELSE /\ failedAt' = pc
          /\ error' = MakedirsError(dir)
          /\ pc' = Propagate(pc)
          /\ exitStatus' = 1
          /\ UNCHANGED dir
  /\ UNCHANGED <<files, idx, out, master, resized, ico_images, drawCalls, written,
                 run, dirAtStart, filesAtStart>>
  /\ UNCHANGED drawVars

\* master = draw_icon(SIZE): the call
CallDrawIcon ==
  /\ pc = "draw"
  /\ pc' = "in_draw"
  /\ drawCalls' = drawCalls + 1
  /\ dsize' = SIZE
  /\ dpc' = "new"
  /\ UNCHANGED <<ci, ops, img>>
  /\ UNCHANGED <<idx, out, master, resized, ico_images, written>>
  /\ UNCHANGED fsVars
  /\ UNCHANGED procVars

\* A statement of draw_icon, inside the call.
MainOnly == <<pc, idx, dir, files, out, master, resized, ico_images, drawCalls,
              written, failedAt, error, exitStatus, run, dirAtStart, filesAtStart>>
InDraw(step) == pc = "in_draw" /\ step /\ UNCHANGED MainOnly

\* master = draw_icon(SIZE): the assignment; then the loop over sizes begins
ReturnMaster ==
  /\ pc = "in_draw"
  /\ dpc = "returned"
  /\ master' = img
  /\ pc' = "png_resize"
  /\ idx' = 1
  /\ UNCHANGED drawVars
  /\ UNCHANGED <<out, resized, ico_images, drawCalls, written>>
  /\ UNCHANGED fsVars
  /\ UNCHANGED procVars

\* resized = master.resize((sz, sz), Image.LANCZOS)
ResizePng ==
  /\ pc = "png_resize"
  /\ resized' = Resize(master, PngSizes[idx])
  /\ pc' = "png_save"
  /\ UNCHANGED drawVars
  /\ UNCHANGED <<idx, out, master, ico_images, drawCalls, written>>
  /\ UNCHANGED fsVars
  /\ UNCHANGED procVars

\* resized.save(path, "PNG")
SavePng ==
  /\ pc = "png_save"
  /\ files' = SaveFile(files, PngNames[idx], PngFile(resized))
  /\ written' = Append(written, PngNames[idx])
  /\ pc' = "png_print"
  /\ UNCHANGED drawVars
  /\ UNCHANGED <<idx, out, master, resized, ico_images, drawCalls, dir>>
  /\ UNCHANGED procVars

\* print(f"  Saved {filename} ({sz}x{sz})"); next iteration or leave the loop
PrintPng ==
  /\ pc = "png_print"
  /\ out' = Append(out, SavedSized(PngNames[idx], PngSizes[idx]))
  /\ IF idx < Len(PngNames)
     THEN idx' = idx + 1 /\ pc' = "png_resize"
     ELSE idx' = idx /\ pc' = "ico_resize"
  /\ UNCHANGED drawVars
  /\ UNCHANGED <<master, resized, ico_images, drawCalls, written>>
  /\ UNCHANGED fsVars
  /\ UNCHANGED procVars

\* ico_images = [master.resize((sz, sz), Image.LANCZOS) for sz in ico_sizes]
ResizeIco ==
  /\ pc = "ico_resize"
  /\ ico_images' = [k \in 1..Len(ico_sizes) |-> Resize(master, ico_sizes[k])]
  /\ pc' = "ico_save"
  /\ UNCHANGED drawVars
  /\ UNCHANGED <<idx, out, master, resized, drawCalls, written>>
  /\ UNCHANGED fsVars
  /\ UNCHANGED procVars

\* ico_images[0].save(ico_path, format="ICO", sizes=..., append_images=ico_images[1:])
SaveIco ==
  /\ pc = "ico_save"
  /\ files' = SaveFile(files, "icon.ico",
                       IcoFile(Head(ico_images), ico_sizes, Tail(ico_images)))
  /\ written' = Append(written, "icon.ico")
  /\ pc' = "ico_print"
  /\ UNCHANGED drawVars
  /\ UNCHANGED <<idx, out, master, resized, ico_images, drawCalls, dir>>
  /\ UNCHANGED procVars

\* print(f"  Saved icon.ico ({len(ico_sizes)} sizes)")
PrintIco ==
  /\ pc = "ico_print"
  /\ out' = Append(out, SavedIco)
  /\ pc' = "icns_resize"
  /\ UNCHANGED drawVars
  /\ UNCHANGED <<idx, master, resized, ico_images, drawCalls, written>>
  /\ UNCHANGED fsVars
  /\ UNCHANGED procVars

\* icns_img = master.resize((512, 512), Image.LANCZOS)
ResizeIcns ==
  /\ pc = "icns_resize"
  /\ resized' = Resize(master, 512)
  /\ pc' = "icns_save"
  /\ UNCHANGED drawVars
  /\ UNCHANGED <<idx, out, master, ico_images, drawCalls, written>>
  /\ UNCHANGED fsVars
  /\ UNCHANGED procVars

\* icns_img.save(icns_path, format="ICNS")
SaveIcns ==
  /\ pc = "icns_save"
  /\ files' = SaveFile(files, "icon.icns", IcnsFile(resized))
  /\ written' = Append(written, "icon.icns")
  /\ pc' = "icns_print"
  /\ UNCHANGED drawVars
  /\ UNCHANGED <<idx, out, master, resized, ico_images, drawCalls, dir>>
  /\ UNCHANGED procVars

\* print(f"  Saved icon.icns")
PrintIcns ==
  /\ pc = "icns_print"
  /\ out' = Append(out, SavedIcns)
  /\ pc' = "web_resize"
  /\ UNCHANGED drawVars
  /\ UNCHANGED <<idx, master, resized, ico_images, drawCalls, written>>
  /\ UNCHANGED fsVars
  /\ UNCHANGED procVars

\* master.resize((512, 512), Image.LANCZOS) of the last save statement
ResizeWeb ==
  /\ pc = "web_resize"
  /\ resized' = Resize(master, 512)
  /\ pc' = "web_save"
  /\ UNCHANGED drawVars
  /\ UNCHANGED <<idx, out, master, ico_images, drawCalls, written>>
  /\ UNCHANGED fsVars
  /\ UNCHANGED procVars

\* .save(os.path.join(icon_dir, "icon.png"), "PNG")
SaveWeb ==
  /\ pc = "web_save"
  /\ files' = SaveFile(files, "icon.png", PngFile(resized))
  /\ written' = Append(written, "icon.png")
  /\ pc' = "web_print"
  /\ UNCHANGED drawVars
  /\ UNCHANGED <<idx, out, master, resized, ico_images, drawCalls, dir>>
  /\ UNCHANGED procVars

\* print(f"  Saved icon.png (512x512)")
PrintWeb ==
  /\ pc = "web_print"
  /\ out' = Append(out, SavedWeb)
  /\ pc' = "banner"
  /\ UNCHANGED drawVars
  /\ UNCHANGED <<idx, master, resized, ico_images, drawCalls, written>>
  /\ UNCHANGED fsVars
  /\ UNCHANGED procVars

\* print("\nAll icons generated!"); main returns and the script exits 0
PrintBanner ==
  /\ pc = "banner"
  /\ out' = Append(out, Banner)
  /\ pc' = "done"
  /\ exitStatus' = 0
  /\ UNCHANGED drawVars
  /\ UNCHANGED <<idx, master, resized, ico_images, drawCalls, written>>
  /\ UNCHANGED fsVars
  /\ UNCHANGED <<failedAt, error, run, dirAtStart, filesAtStart>>

\* A statement that touches no file raises: os.makedirs (OSError), the
\* allocation of an image in Image.new or resize (MemoryError).
RaiseSteps == {"makedirs", "png_resize", "ico_resize", "icns_resize", "web_resize"}
RaiseStep ==
  /\ \/ pc \in RaiseSteps
     \/ pc = "in_draw" /\ dpc = "new"
  /\ failedAt' = pc
  /\ error' = IF pc = "makedirs" THEN "OSError" ELSE "MemoryError"
  /\ pc' = Propagate(pc)
  /\ exitStatus' = IF pc' = "aborted" THEN 1 ELSE exitStatus
  /\ UNCHANGED drawVars
  /\ UNCHANGED <<idx, out, master, resized, ico_images, drawCalls, written>>
  /\ UNCHANGED fsVars
  /\ UNCHANGED <<run, dirAtStart, filesAtStart>>

\* A save raises OSError: before the file is opened, or after it was opened
\* (and truncated) and before it is complete.
SaveSteps == {"png_save", "ico_save", "icns_save", "web_save"}
SaveTarget(p, i) ==
  CASE p = "png_save" -> PngNames[i]
    [] p = "ico_save" -> "icon.ico"
    [] p = "icns_save" -> "icon.icns"
    [] OTHER -> "icon.png"
RaiseSave ==
  /\ pc \in SaveSteps
  /\ \E opened \in BOOLEAN :
       files' = IF opened THEN [files EXCEPT ![SaveTarget(pc, idx)] = Partial]
                ELSE files
  /\ failedAt' = pc
  /\ error' = "OSError"
  /\ pc' = Propagate(pc)
  /\ exitStatus' = IF pc' = "aborted" THEN 1 ELSE exitStatus
  /\ UNCHANGED drawVars
  /\ UNCHANGED <<idx, out, master, resized, ico_images, drawCalls, written, dir>>
  /\ UNCHANGED <<run, dirAtStart, filesAtStart>>

\* The script is invoked again, on the file system the last invocation left.
NewRun ==
  /\ pc \in {"done", "aborted"}
  /\ run < MaxRuns
  /\ run' = run + 1
  /\ pc' = "makedirs"
  /\ idx' = 0
  /\ out' = << >>
  /\ master' = NoImage
  /\ resized' = NoImage
  /\ ico_images' = << >>
  /\ drawCalls' = 0
  /\ written' = << >>
  /\ failedAt' = "none"
  /\ error' = "none"
  /\ exitStatus' = -1
  /\ dirAtStart' = dir
  /\ filesAtStart' = files
  /\ dsize' = 0
  /\ dpc' = "idle"
  /\ ci' = 0
  /\ ops' = << >>
  /\ img' = NoImage
  /\ UNCHANGED fsVars

\* The first invocation: the icon directory is missing, or exists and holds
\* any of a file of the user's and an icon.ico of an earlier generator.
Init ==
  /\ dir \in {"missing", "present"}
  /\ files \in [Names -> {Absent, Stale, UserData}]
  /\ \A n \in Names : files[n] # Absent => dir = "present"
  /\ \A n \in Names : files[n] = UserData => n = OtherFile
  /\ \A n \in Names : files[n] = Stale => n = "icon.ico"
  /\ pc = "makedirs"
  /\ idx = 0
  /\ out = << >>
  /\ master = NoImage
  /\ resized = NoImage
  /\ ico_images = << >>
  /\ drawCalls = 0
  /\ written = << >>
  /\ failedAt = "none"
  /\ error = "none"
  /\ exitStatus = -1
  /\ run = 1
  /\ dirAtStart = dir
  /\ filesAtStart = files
  /\ dsize = 0
  /\ dpc = "idle"
  /\ ci = 0
  /\ ops = << >>
  /\ img = NoImage

Next ==
  \/ Makedirs
  \/ CallDrawIcon
  \/ InDraw(ImageNew)
  \/ InDraw(DrawBackground)
  \/ InDraw(DrawDiamond)
  \/ InDraw(DrawInnerDiamond)
  \/ InDraw(DrawChord)
  \/ InDraw(DrawLensOutline)
  \/ InDraw(DrawLensFill)
  \/ InDraw(DrawShine)
  \/ InDraw(DrawHandle)
  \/ InDraw(DrawCap)
  \/ InDraw(ReturnImg)
  \/ ReturnMaster
  \/ ResizePng
  \/ SavePng
  \/ PrintPng
  \/ ResizeIco
  \/ SaveIco
  \/ PrintIco
  \/ ResizeIcns
  \/ SaveIcns
  \/ PrintIcns
  \/ ResizeWeb
  \/ SaveWeb
  \/ PrintWeb
  \/ PrintBanner
  \/ RaiseStep
  \/ RaiseSave
  \/ NewRun

Spec == Init /\ [][Next]_vars

\* ===================================================================
\* Properties
\* ===================================================================
FrameSizes(content) == [k \in 1..Len(content.frames) |-> content.frames[k].w]
SquareRGBA(content) ==
  \A k \in 1..Len(content.frames) :
    content.frames[k].h = content.frames[k].w /\ content.frames[k].mode = "RGBA"

\* The lines of a complete run, as the specification lists them.
ExpectedLines ==
  << "  Saved 32x32.png (32x32)",
     "  Saved 128x128.png (128x128)",
     "  Saved 128x128@2x.png (256x256)",
     "  Saved icon.ico (7 sizes)",
     "  Saved icon.icns",
     "  Saved icon.png (512x512)" >>

ExportPcs ==
  { "png_resize", "png_save", "png_print", "ico_resize", "ico_save", "ico_print",
    "icns_resize", "icns_save", "icns_print", "web_resize", "web_save", "web_print",
    "banner" }

\* Everything C1 states except the variants inside icon.ico: the PNG and
\* ICNS artifacts, the set of files written, the printed lines, the order
\* of each line after its save.
CompleteRunExceptIco ==
  /\ pc = "done" =>
       /\ files["32x32.png"].fmt = "PNG" /\ FrameSizes(files["32x32.png"]) = <<32>>
       /\ files["128x128.png"].fmt = "PNG" /\ FrameSizes(files["128x128.png"]) = <<128>>
       /\ files["128x128@2x.png"].fmt = "PNG"
       /\ FrameSizes(files["128x128@2x.png"]) = <<256>>
       /\ files["icon.ico"].fmt = "ICO"
       /\ files["icon.icns"].fmt = "ICNS" /\ FrameSizes(files["icon.icns"]) = <<512>>
       /\ files["icon.png"].fmt = "PNG" /\ FrameSizes(files["icon.png"]) = <<512>>
       /\ \A n \in Artifacts : SquareRGBA(files[n])
       /\ written = ArtifactOrder
       /\ files[OtherFile] = filesAtStart[OtherFile]
       /\ out = ExpectedLines \o << "\nAll icons generated!" >>
       /\ exitStatus = 0
  /\ \A k \in 1..Len(ExpectedLines) :
       ExpectedLines[k] \in Range(out) =>
         /\ ArtifactOrder[k] \in Range(written)
         /\ files[ArtifactOrder[k]].fmt \in {"PNG", "ICO", "ICNS"}
  /\ "\nAll icons generated!" \in Range(out) => pc = "done"

\* C1: a run of main in which no step fails ends with exactly the six
\* artifacts of the stated formats and dimensions (icon.ico embedding the
\* 16, 24, 32, 48, 64, 128 and 256 px variants in that order), no other file
\* written, six "Saved" lines each printed after its artifact is written,
\* and the completion banner last.
C1_CompleteRunArtifacts ==
  /\ CompleteRunExceptIco
  /\ pc = "done" => FrameSizes(files["icon.ico"]) = <<16, 24, 32, 48, 64, 128, 256>>

\* What the code stores in icon.ico: the 16 px variant alone.
IcoHoldsOnlySmallest ==
  pc = "done" => FrameSizes(files["icon.ico"]) = <<16>>

\* What every state of a run shows of the master image: one draw_icon call,
\* made before the export, and only resizes of its result in the files saved.
C2_Provenance ==
  /\ drawCalls <= 1
  /\ pc \in ExportPcs \cup {"done"} => drawCalls = 1 /\ master.via = "draw"
  /\ written # << >> => drawCalls = 1
  /\ \A k \in 1..Len(written) :
       \A j \in 1..Len(files[written[k]].frames) :
         /\ files[written[k]].frames[j].via = "resize"
         /\ files[written[k]].frames[j].id = master.id
\* A step of the export leaves the master image and its content as they were.
C2_ExportReadsMaster ==
  pc \in ExportPcs => master' = master /\ ops' = ops /\ drawCalls' = drawCalls
\* C2: draw_icon is called exactly once, before any export step; every
\* image written to an artifact is a resize of that one master image; no
\* step after draw_icon returns modifies the master image.
C2_SingleMaster == [](C2_Provenance) /\ [][C2_ExportReadsMaster]_vars
C2_Witness ==
  pc = "done" /\ drawCalls = 1 /\ written = ArtifactOrder /\ Len(ops) = 11

\* C3: a failing step is neither caught nor retried: the run stops there
\* with a non-zero status, the artifacts from the failing one on are not
\* written (the failing one is at most left incomplete), and neither the
\* failing artifact's "Saved" line nor the banner is printed.
C3_FailureAborts ==
  failedAt # "none" =>
    LET n == SavedBefore(failedAt, idx) IN
    /\ pc = "aborted"
    /\ exitStatus = 1
    /\ written = SubSeq(ArtifactOrder, 1, n)
    /\ out = SubSeq(ExpectedLines, 1, n)
    /\ \A k \in (n + 2)..Len(ArtifactOrder) :
         files[ArtifactOrder[k]] = filesAtStart[ArtifactOrder[k]]
    /\ n < Len(ArtifactOrder) =>
         files[ArtifactOrder[n + 1]] \in {filesAtStart[ArtifactOrder[n + 1]], Partial}
C3_Witness ==
  /\ failedAt = "ico_save"
  /\ pc = "aborted"
  /\ files["icon.ico"] = Partial
  /\ Len(written) = 3

\* C4: for every positive size draw_icon returns a size x size RGBA image
\* without raising, and no drawing step receives a degenerate bounding box.
C4_DrawIconTotal ==
  /\ dpc # "raised"
  /\ \A k \in 1..Len(ops) : ~Degenerate(ops[k])
  /\ dpc = "returned" => img.w = dsize /\ img.h = dsize /\ img.mode = "RGBA"

\* The sizes at which the lens fill is degenerate are exactly 1..19.
LensFillDegenerateBelow20 ==
  Degenerate(LensFillCall(dsize)) <=> dsize < 20

\* The number of chord-loop iterations completed.
ChordsDone ==
  IF dpc \in {"new", "background", "diamond", "inner_diamond"} THEN 0
  ELSE IF dpc = "chords" THEN ci - 1
  ELSE 3
ChordOps(i) == SelectSeq(ops, LAMBDA c : c.tag = "chord" /\ c.i = i)
AllChordOps == SelectSeq(ops, LAMBDA c : c.tag = "chord")

\* C5: each candidate chord has half_width = diamond_r - |offset|; it is
\* drawn (from diamond_cx - half_width + line_w to diamond_cx + half_width -
\* line_w on row diamond_cy + offset) if and only if half_width > 0.
C5_ChordRule ==
  \A i \in 1..ChordsDone :
    LET offset == Offsets(dsize)[i]
        hw == diamond_r(dsize) - (IF offset < 0 THEN -offset ELSE offset)
        row == diamond_cy(dsize) + offset
    IN /\ hw > 0 =>
            /\ Len(ChordOps(i)) = 1
            /\ ChordOps(i)[1].xy =
                 << diamond_cx(dsize) - hw + line_w(dsize), row,
                    diamond_cx(dsize) + hw - line_w(dsize), row >>
       /\ hw <= 0 => Len(ChordOps(i)) = 0
C5_Witness ==
  /\ dpc = "returned"
  /\ diamond_r(dsize) = 1
  /\ Len(ChordOps(1)) = 0
  /\ Len(ChordOps(2)) = 1
  /\ Len(ChordOps(3)) = 1

\* C6: the chords sit at offsets -r/3, 0, +r/3 with r = diamond_r: the upper
\* and lower offsets mirror each other, so those two chords have the same
\* half_width.
C6_MirroredOffsets ==
  ChordsDone = 3 =>
    /\ Offsets(dsize)[1] = -(Offsets(dsize)[3])
    /\ Len(ChordOps(1)) = Len(ChordOps(3))
    /\ Len(ChordOps(1)) = 1 /\ Len(ChordOps(3)) = 1 =>
         /\ ChordOps(1)[1].xy[1] = ChordOps(3)[1].xy[1]
         /\ ChordOps(1)[1].xy[3] = ChordOps(3)[1].xy[3]
         /\ diamond_cy(dsize) - ChordOps(1)[1].xy[2]
              = ChordOps(3)[1].xy[2] - diamond_cy(dsize)

\* The offsets mirror each other exactly when 3 divides diamond_r.
MirroredIffDivisible ==
  (Offsets(dsize)[1] = -(Offsets(dsize)[3])) <=> (diamond_r(dsize) % 3 = 0)

\* b is twice a up to one truncation.
Doubles(a, b) == b - 2 * a \in {0, 1}

UnclampedDoubles(S) ==
  /\ Doubles(pad(S), pad(2 * S))
  /\ Doubles(radius(S), radius(2 * S))
  /\ Doubles(diamond_cx(S), diamond_cx(2 * S))
  /\ Doubles(diamond_cy(S), diamond_cy(2 * S))
  /\ Doubles(diamond_r(S), diamond_r(2 * S))
  /\ Doubles(lens_cx(S), lens_cx(2 * S))
  /\ Doubles(lens_cy(S), lens_cy(2 * S))
  /\ Doubles(lens_r(S), lens_r(2 * S))
  /\ Doubles(handle_end_x(S), handle_end_x(2 * S))
  /\ Doubles(handle_end_y(S), handle_end_y(2 * S))

\* C7 as stated: every dimension of draw_icon, the stroke widths and the cap
\* radius included, is size times a fixed fraction, so at size 2*S it is
\* twice its value at S up to integer truncation (the cap radius, truncated
\* twice, up to two).
C7_AllDimensionsScale ==
  dpc = "returned" =>
    /\ UnclampedDoubles(dsize)
    /\ Doubles(line_w(dsize), line_w(2 * dsize))
    /\ Doubles(lens_outline_w(dsize), lens_outline_w(2 * dsize))
    /\ Doubles(shine_w(dsize), shine_w(2 * dsize))
    /\ Doubles(handle_w(dsize), handle_w(2 * dsize))
    /\ cap_r(2 * dsize) - 2 * cap_r(dsize) \in 0..2

\* A stroke width w = max(min, int(size * c)), given at S (wS) and at 2*S
\* (w2S) with raw = int(S * c): below the size at which raw reaches min it is
\* the absolute pixel count min and does not double; from that size on it
\* is raw and doubles.
StrokeScales(wS, w2S, raw, min) ==
  /\ wS >= min
  /\ raw < min => wS = min /\ ~Doubles(wS, w2S)
  /\ raw >= min => wS = raw /\ Doubles(wS, w2S)

\* C7 (amended): padding, corner radius, the centres, the radii and the
\* handle end point are int(size * fraction) and double with the size up to
\* truncation; the stroke widths are floored at 2, 4, 2 and 6 pixels and
\* double only from the size at which size * fraction reaches that floor;
\* the cap radius, int(handle_w * 0.6), doubles up to two when handle_w does.
C7_ScalesExceptStrokeFloors ==
  dpc = "returned" =>
    /\ UnclampedDoubles(dsize)
    /\ StrokeScales(line_w(dsize), line_w(2 * dsize),
                    FloatMulTrunc(dsize, F_0_012), 2)
    /\ StrokeScales(lens_outline_w(dsize), lens_outline_w(2 * dsize),
                    FloatMulTrunc(dsize, F_0_04), 4)
    /\ StrokeScales(shine_w(dsize), shine_w(2 * dsize),
                    FloatMulTrunc(dsize, F_0_018), 2)
    /\ StrokeScales(handle_w(dsize), handle_w(2 * dsize),
                    FloatMulTrunc(dsize, F_0_055), 6)
    /\ FloatMulTrunc(dsize, F_0_055) >= 6 =>
         cap_r(2 * dsize) - 2 * cap_r(dsize) \in 0..2
C7_Witness ==
  /\ dpc = "returned"
  /\ 2 * dsize = SIZE
  /\ line_w(dsize) > 2
  /\ Len(ops) = 11

\* The chords drawn are well oriented, inside the diamond's width at their
\* row, and on pairwise distinct rows.
ChordsWellFormed ==
  /\ \A k \in 1..Len(AllChordOps) :
       LET c == AllChordOps[k]
           dy == IF c.xy[2] < diamond_cy(dsize) THEN diamond_cy(dsize) - c.xy[2]
                 ELSE c.xy[2] - diamond_cy(dsize)
           hw == diamond_r(dsize) - dy
       IN /\ c.xy[1] <= c.xy[3]
          /\ hw >= line_w(dsize)
          /\ diamond_cx(dsize) - hw <= c.xy[1]
          /\ c.xy[3] <= diamond_cx(dsize) + hw
          /\ c.xy[4] = c.xy[2]
  /\ \A j, k \in 1..Len(AllChordOps) :
       j # k => AllChordOps[j].xy[2] # AllChordOps[k].xy[2]

\* C10 as stated: for every positive size every chord drawn is well
\* oriented (half_width >= line_w whenever half_width > 0), inside the
\* diamond, and no two drawn chords share a row.
C10_ChordsWellFormedAnySize == ChordsWellFormed

\* C10 (amended): the same for every size whose diamond_r is at least 3
\* (every size from 14 on).
C10_ChordsWellFormedFromR3 ==
  diamond_r(dsize) >= 3 => ChordsWellFormed
C10_Witness ==
  /\ dpc = "returned"
  /\ diamond_r(dsize) = 3
  /\ Len(AllChordOps) = 3
DiamondR3From14 ==
  diamond_r(dsize) >= 3 <=> dsize >= 14

\* What a single complete run into an empty directory leaves in each artifact.
FromMaster(sz) == [w |-> sz, h |-> sz, mode |-> "RGBA", via |-> "resize", id |-> 1]
SingleRunContent(n) ==
  CASE n = "32x32.png" -> [fmt |-> "PNG", frames |-> << FromMaster(32) >>]
    [] n = "128x128.png" -> [fmt |-> "PNG", frames |-> << FromMaster(128) >>]
    [] n = "128x128@2x.png" -> [fmt |-> "PNG", frames |-> << FromMaster(256) >>]
    [] n = "icon.ico" -> [fmt |-> "ICO", frames |-> << FromMaster(16) >>]
    [] n = "icon.icns" -> [fmt |-> "ICNS", frames |-> << FromMaster(512) >>]
    [] n = "icon.png" -> [fmt |-> "PNG", frames |-> << FromMaster(512) >>]

\* C8: whatever runs came before (complete or aborted at any step), after
\* a complete run each artifact holds what a single complete run into an
\* empty directory leaves there; a run on the result of a complete run
\* changes no file, adds none and removes none.
C8_Idempotent ==
  pc = "done" =>
    /\ \A n \in Artifacts : files[n] = SingleRunContent(n)
    /\ files[OtherFile] = filesAtStart[OtherFile]
    /\ (\A n \in Artifacts : filesAtStart[n] = SingleRunContent(n)) => files = filesAtStart
C8_Witness ==
  /\ pc = "done"
  /\ run = 3
  /\ filesAtStart["icon.ico"] = Partial
  /\ filesAtStart["32x32.png"] = SingleRunContent("32x32.png")
  /\ filesAtStart["icon.png"] = Partial

\* C9: os.makedirs never fails because of the state of the directory; once
\* it has run the directory exists, so it exists before any artifact is
\* written; the file main does not name is left as it was.
C9_DirectoryEnsured ==
  /\ error # "FileExistsError"
  /\ (pc # "makedirs" /\ failedAt # "makedirs") => dir = "present"
  /\ written # << >> => dir = "present"
  /\ files[OtherFile] = filesAtStart[OtherFile]
  /\ (pc = "done" /\ dirAtStart = "missing") => written = ArtifactOrder
C9_Witness ==
  /\ pc = "done"
  /\ run = 2
  /\ dirAtStart = "present"
  /\ files[OtherFile] = UserData
  /\ written = ArtifactOrder
C9_WitnessMissing ==
  pc = "done" /\ run = 1 /\ dirAtStart = "missing" /\ dir = "present"

====
